---- MODULE Spec2Model ----
(***************************************************************************)
(* State machine of the App component of frontend/src/App.js: the form,    *)
(* the generation request and its completion, the reply collection, the    *)
(* selection and the editor buffer.                                        *)
(*                                                                         *)
(* Strings whose characters matter (emailContent, which is trimmed) are    *)
(* sequences of characters; all other texts are opaque strings.            *)
(* A JavaScript value that may be null/undefined is a sequence of length   *)
(* at most one: << >> is null/undefined and <<v>> is the value v.          *)
(***************************************************************************)
EXTENDS Integers, Sequences, FiniteSets, TLC

VARIABLES
    emailContent,    \* useState("")    App.js:9
    senderName,      \* useState("")    App.js:10
    senderEmail,     \* useState("")    App.js:11
    replies,         \* useState([])    App.js:12
    selectedReply,   \* useState(null)  App.js:13
    editedReply,     \* useState("")    App.js:14
    loading,         \* useState(false) App.js:15
    error,           \* useState("")    App.js:16
    pending,         \* the axios.post promises that have not settled yet
    issued,          \* history: number of requests issued so far
    repliesFrom,     \* history: id of the request whose response is installed, 0 if none
    delivered,       \* history: the outcome handed to the last settled request
    shownBefore,     \* history: the replies displayed when the outstanding request was issued
    openedContent,   \* history: content the selected reply had when the open session was opened
    openedUnder,     \* history: id of the request whose replies the open session was opened on
    editedUnder,     \* history: id of the request under whose replies editedReply got its text, 0 if never set
    staleText,       \* history: the text of a prior collection's session that the last select found in editedReply
    discarded,       \* history: the unsaved working text the last select / reset overwrote
    lastOp,          \* history: the handler that ran last, form field changes aside
    cards,           \* the presentations getToneIcon / getToneColor gave, one per card
    clipboard,       \* the text on the system clipboard, null before any write
    writes,          \* the navigator.clipboard.writeText promises not settled yet, oldest first
    lastCopy,        \* history: the last copyToClipboard call and what it showed
    lastWrite        \* history: the last write that settled and what came of it

appVars == <<emailContent, senderName, senderEmail, replies, selectedReply,
             editedReply, loading, error, pending, issued, repliesFrom,
             delivered, shownBefore, openedContent, openedUnder, editedUnder,
             staleText, discarded, lastOp>>

viewVars == <<cards, clipboard, writes, lastCopy, lastWrite>>

vars == <<appVars, viewVars>>

(***************************************************************************)
(* Bounds of the model.                                                    *)
(***************************************************************************)
MaxLen == 2          \* longest emailContent typed
MaxReplies == 2      \* longest reply list a response carries
MaxRequests == 2     \* requests issued in one behaviour
MaxCards == 2        \* cards presented in one behaviour
MaxWrites == 2       \* clipboard writes outstanding at a time

(***************************************************************************)
(* Null / undefined.                                                       *)
(***************************************************************************)
Null == << >>
Some(v) == <<v>>
IsNull(o) == o = << >>
Val(o) == o[1]

(***************************************************************************)
(* Input domains.                                                          *)
(***************************************************************************)
\* The characters String.prototype.trim removes: the WhiteSpace and
\* LineTerminator code points of ECMAScript.  A character TLA+ has no
\* escape for is written as its code point.
Whitespace ==
    {"\t", "\n", "U+000B", "\f", "\r", " ", "U+00A0", "U+1680",
     "U+2000", "U+2001", "U+2002", "U+2003", "U+2004", "U+2005", "U+2006",
     "U+2007", "U+2008", "U+2009", "U+200A", "U+2028", "U+2029", "U+202F",
     "U+205F", "U+3000", "U+FEFF"}
Chars == {" ", "a"}

RECURSIVE StrsOfLen(_)
StrsOfLen(n) ==
    IF n = 0 THEN {<< >>}
    ELSE {Append(s, c) : s \in StrsOfLen(n - 1), c \in Chars}

Contents == UNION {StrsOfLen(n) : n \in 0..MaxLen}

Names == {"", "John Doe"}
Emails == {"", "john@example.com"}
EditTexts == {"", "Thanks"}
Details == {"", "rate limited"}

ReplyPool ==
    { [id |-> "1", tone |-> "professional", content |-> "Dear...", preview |-> "Dear..."],
      [id |-> "2", tone |-> "friendly", content |-> "Hey...", preview |-> "Hey..."],
      [id |-> "3", tone |-> "casual", content |-> "Dear...", preview |-> "Dear..."] }

RECURSIVE ReplyListsOfLen(_)
ReplyListsOfLen(n) ==
    IF n = 0 THEN {<< >>}
    ELSE {Append(l, r) : l \in ReplyListsOfLen(n - 1), r \in ReplyPool}

UniqueIds(l) == \A i, j \in 1..Len(l) : l[i].id = l[j].id => i = j

ReplyLists ==
    {l \in UNION {ReplyListsOfLen(n) : n \in 0..MaxReplies} : UniqueIds(l)}

\* What the awaited axios.post can settle with: a resolved response whose
\* data carries the reply list, or a rejection err whose response, data and
\* detail may each be missing.
Successes == {[ok |-> TRUE, data |-> [replies |-> l]] : l \in ReplyLists}
Failures ==
    {[ok |-> FALSE, response |-> Null],
     [ok |-> FALSE, response |-> Some([data |-> Null])],
     [ok |-> FALSE, response |-> Some([data |-> Some([detail |-> Null])])]}
    \cup {[ok |-> FALSE, response |-> Some([data |-> Some([detail |-> Some(d)])])] :
             d \in Details}
Outcomes == Successes \cup Failures

(***************************************************************************)
(* Messages.                                                               *)
(***************************************************************************)
ValidationMsg == "Please enter an email to generate replies"
FallbackMsg == "Failed to generate replies. Please try again."

(***************************************************************************)
(* String.prototype.trim: drop leading and trailing white space.           *)
(***************************************************************************)
RECURSIVE TrimStart(_)
TrimStart(s) ==
    IF s # << >> /\ Head(s) \in Whitespace THEN TrimStart(Tail(s)) ELSE s

RECURSIVE TrimEnd(_)
TrimEnd(s) ==
    IF s # << >> /\ s[Len(s)] \in Whitespace
    THEN TrimEnd(SubSeq(s, 1, Len(s) - 1))
    ELSE s

Trim(s) == TrimEnd(TrimStart(s))

\* !emailContent.trim()
IsBlank_NoTrim(s) == s = << >>
IsBlank(s) == Trim(s) = << >>

\* x || null for a string x
OrNull_AsIs(x) == Some(x)
OrNull(x) == IF x = "" THEN Null ELSE Some(x)

\* the body of the POST
Payload(content, name, email) ==
    [email_content |-> content,
     sender_name |-> OrNull(name),
     sender_email |-> OrNull(email)]

\* err.response?.data?.detail
ErrDetail(err) ==
    IF IsNull(err.response) THEN Null
    ELSE IF IsNull(Val(err.response).data) THEN Null
    ELSE Val(Val(err.response).data).detail

\* err.response?.data?.detail || "Failed to generate replies. Please try again."
ErrorMessage_NoDetail(err) == FallbackMsg
ErrorMessage(err) ==
    IF IsNull(ErrDetail(err)) \/ Val(ErrDetail(err)) = ""
    THEN FallbackMsg
    ELSE Val(ErrDetail(err))

\* the submit button: disabled={loading}
SubmitEnabled_Always == TRUE
SubmitEnabled == ~loading

\* setError("") before the POST
ClearedError_Kept == error
ClearedError == ""

\* setLoading(false) in the finally block, whatever the outcome
LoadingAfter_SuccessOnly(out) == ~out.ok
LoadingAfter(out) == FALSE

\* setReplies([]) and setSelectedReply(null) before the POST
ClearedReplies_Kept == replies
ClearedReplies == << >>

ClearedSelection_Kept == selectedReply
ClearedSelection == Null

\* setReplies(response.data.replies)
RECURSIVE Reversed(_)
Reversed(l) == IF l = << >> THEN << >> ELSE Append(Reversed(Tail(l)), Head(l))

InstalledReplies_Reversed(response) == Reversed(response.data.replies)
InstalledReplies(response) == response.data.replies

\* setEditedReply(reply.content) in selectReply
OpenedText_NotSet(reply) == editedReply
OpenedText_KeepEdits(reply) ==
    IF IsNull(selectedReply) THEN reply.content ELSE editedReply
OpenedText(reply) == reply.content

\* setEditedReply(selectedReply.content) of Reset to Original
ResetText_First == replies[1].content
ResetText == Val(selectedReply).content

\* the editor textarea is bound to editedReply: a change of its text leaves
\* the selected reply as it is
SelectionAfterEdit_InPlace(v) == Some([Val(selectedReply) EXCEPT !.content = v])
SelectionAfterEdit(v) == selectedReply

\* the working text differs from the selected reply's content
Unsaved == ~IsNull(selectedReply) /\ editedReply # Val(selectedReply).content

(***************************************************************************)
(* Initial state: the useState initial values, nothing in flight.          *)
(***************************************************************************)
Init ==
    /\ emailContent = << >>
    /\ senderName = ""
    /\ senderEmail = ""
    /\ replies = << >>
    /\ selectedReply = Null
    /\ editedReply = ""
    /\ loading = FALSE
    /\ error = ""
    /\ pending = {}
    /\ issued = 0
    /\ repliesFrom = 0
    /\ delivered = Null
    /\ shownBefore = << >>
    /\ openedContent = Null
    /\ openedUnder = 0
    /\ editedUnder = 0
    /\ staleText = Null
    /\ discarded = Null
    /\ lastOp = "init"
    /\ cards = << >>
    /\ clipboard = Null
    /\ writes = << >>
    /\ lastCopy = Null
    /\ lastWrite = Null

(***************************************************************************)
(* Form fields.                                                            *)
(***************************************************************************)
SetEmailContent(v) ==
    /\ UNCHANGED viewVars
    /\ emailContent' = v
    /\ UNCHANGED <<senderName, senderEmail, replies, selectedReply, editedReply,
                   loading, error, pending, issued, repliesFrom, delivered,
                   shownBefore, openedContent, openedUnder, editedUnder, staleText,
                   discarded, lastOp>>

SetSenderName(v) ==
    /\ UNCHANGED viewVars
    /\ senderName' = v
    /\ UNCHANGED <<emailContent, senderEmail, replies, selectedReply, editedReply,
                   loading, error, pending, issued, repliesFrom, delivered,
                   shownBefore, openedContent, openedUnder, editedUnder, staleText,
                   discarded, lastOp>>

SetSenderEmail(v) ==
    /\ UNCHANGED viewVars
    /\ senderEmail' = v
    /\ UNCHANGED <<emailContent, senderName, replies, selectedReply, editedReply,
                   loading, error, pending, issued, repliesFrom, delivered,
                   shownBefore, openedContent, openedUnder, editedUnder, staleText,
                   discarded, lastOp>>

(***************************************************************************)
(* generateReplies up to the await: the validation, the four state         *)
(* updates and the POST.                                                   *)
(***************************************************************************)
GenerateReplies ==
    /\ UNCHANGED viewVars
    /\ SubmitEnabled
    /\ discarded' = Null
    /\ staleText' = Null
    /\ UNCHANGED editedUnder
    /\ IF IsBlank(emailContent)
       THEN /\ error' = ValidationMsg
            /\ lastOp' = "rejected"
            /\ UNCHANGED <<emailContent, senderName, senderEmail, replies,
                           selectedReply, editedReply, loading, pending, issued,
                           repliesFrom, delivered, shownBefore, openedContent,
                           openedUnder>>
       ELSE /\ issued < MaxRequests
            /\ loading' = TRUE
            /\ error' = ClearedError
            /\ replies' = ClearedReplies
            /\ selectedReply' = ClearedSelection
            /\ issued' = issued + 1
            /\ pending' = pending \cup
                   {[id |-> issued + 1,
                     body |-> Payload(emailContent, senderName, senderEmail)]}
            /\ repliesFrom' = 0
            /\ delivered' = Null
            /\ shownBefore' = replies
            /\ openedContent' = Null
            /\ openedUnder' = 0
            /\ lastOp' = "submit"
            /\ UNCHANGED <<emailContent, senderName, senderEmail, editedReply>>

(***************************************************************************)
(* generateReplies after the await: the request req settles with outcome   *)
(* out; try / catch / finally.                                             *)
(***************************************************************************)
Settle(req, out) ==
    /\ UNCHANGED viewVars
    /\ req \in pending
    /\ pending' = pending \ {req}
    /\ delivered' = Some(out)
    /\ discarded' = Null
    /\ UNCHANGED <<editedUnder, staleText>>
    /\ IF out.ok
       THEN /\ replies' = InstalledReplies(out)
            /\ repliesFrom' = req.id
            /\ lastOp' = "installed"
            /\ UNCHANGED error
       ELSE /\ error' = ErrorMessage(out)
            /\ lastOp' = "failed"
            /\ UNCHANGED <<replies, repliesFrom>>
    /\ loading' = LoadingAfter(out)
    /\ shownBefore' = << >>
    /\ UNCHANGED <<emailContent, senderName, senderEmail, selectedReply,
                   editedReply, issued, openedContent, openedUnder>>

(***************************************************************************)
(* Reply cards and the editor.                                             *)
(***************************************************************************)
SelectReply(i) ==
    /\ UNCHANGED viewVars
    /\ i \in 1..Len(replies)
    /\ selectedReply' = Some(replies[i])
    /\ editedReply' = OpenedText(replies[i])
    /\ openedContent' = Some(replies[i].content)
    /\ openedUnder' = repliesFrom
    /\ editedUnder' = IF editedReply' = replies[i].content
                      THEN repliesFrom
                      ELSE editedUnder
    /\ staleText' = IF editedUnder \notin {0, repliesFrom}
                    THEN Some(editedReply)
                    ELSE Null
    /\ discarded' = IF Unsaved THEN Some(editedReply) ELSE Null
    /\ lastOp' = "select"
    /\ UNCHANGED <<emailContent, senderName, senderEmail, replies, loading,
                   error, pending, issued, repliesFrom, delivered, shownBefore>>

CloseEditor ==
    /\ UNCHANGED viewVars
    /\ ~IsNull(selectedReply)
    /\ selectedReply' = Null
    /\ openedContent' = Null
    /\ openedUnder' = 0
    /\ lastOp' = "close"
    /\ discarded' = Null
    /\ staleText' = Null
    /\ UNCHANGED editedUnder
    /\ UNCHANGED <<emailContent, senderName, senderEmail, replies, editedReply,
                   loading, error, pending, issued, repliesFrom, delivered,
                   shownBefore>>

EditReply(v) ==
    /\ UNCHANGED viewVars
    /\ ~IsNull(selectedReply)
    /\ editedReply' = v
    /\ selectedReply' = SelectionAfterEdit(v)
    /\ lastOp' = "edit"
    /\ discarded' = Null
    /\ editedUnder' = repliesFrom
    /\ staleText' = Null
    /\ UNCHANGED <<emailContent, senderName, senderEmail, replies,
                   loading, error, pending, issued, repliesFrom, delivered,
                   shownBefore, openedContent, openedUnder>>

ResetReply ==
    /\ UNCHANGED viewVars
    /\ ~IsNull(selectedReply)
    /\ editedReply' = ResetText
    /\ lastOp' = "reset"
    /\ discarded' = IF Unsaved THEN Some(editedReply) ELSE Null
    /\ editedUnder' = IF editedReply' = Val(selectedReply).content
                      THEN repliesFrom
                      ELSE editedUnder
    /\ staleText' = Null
    /\ UNCHANGED <<emailContent, senderName, senderEmail, replies, selectedReply,
                   loading, error, pending, issued, repliesFrom, delivered,
                   shownBefore, openedContent, openedUnder>>

Next ==
    \/ \E v \in Contents : SetEmailContent(v)
    \/ \E v \in Names : SetSenderName(v)
    \/ \E v \in Emails : SetSenderEmail(v)
    \/ GenerateReplies
    \/ \E req \in pending, out \in Outcomes : Settle(req, out)
    \/ \E i \in 1..MaxReplies : SelectReply(i)
    \/ CloseEditor
    \/ \E v \in EditTexts : EditReply(v)
    \/ ResetReply

Spec == Init /\ [][Next]_vars

(***************************************************************************)
(* The reply cards' presentation and copyToClipboard.  They read no state   *)
(* of App but their argument, so they are applied here to arguments drawn   *)
(* from bounded sets.                                                       *)
(***************************************************************************)

\* The icons and colors object literals.  The icon glyphs are named, not
\* drawn: necktie, smile, zap, memo, envelope.
Icons ==
    [professional |-> "necktie", friendly |-> "smile",
     brief |-> "zap", detailed |-> "memo"]
DefaultIcon == "envelope"

Colors ==
    [professional |-> "bg-blue-50 border-blue-200",
     friendly |-> "bg-green-50 border-green-200",
     brief |-> "bg-yellow-50 border-yellow-200",
     detailed |-> "bg-purple-50 border-purple-200"]
DefaultColor == "bg-gray-50 border-gray-200"

\* An object literal inherits the members of Object.prototype: functions,
\* shown here by their names, and __proto__, which is Object.prototype.
ObjectPrototype ==
    ("constructor" :> "function Object")
    @@ ("toString" :> "function toString")
    @@ ("valueOf" :> "function valueOf")
    @@ ("hasOwnProperty" :> "function hasOwnProperty")
    @@ ("isPrototypeOf" :> "function isPrototypeOf")
    @@ ("propertyIsEnumerable" :> "function propertyIsEnumerable")
    @@ ("toLocaleString" :> "function toLocaleString")
    @@ ("__proto__" :> "[object Object]")
    @@ ("__defineGetter__" :> "function __defineGetter__")
    @@ ("__defineSetter__" :> "function __defineSetter__")
    @@ ("__lookupGetter__" :> "function __lookupGetter__")
    @@ ("__lookupSetter__" :> "function __lookupSetter__")

\* obj[key]: the own property, else the inherited one, else undefined
GetProperty(obj, key) ==
    IF key \in DOMAIN obj THEN Some(obj[key])
    ELSE IF key \in DOMAIN ObjectPrototype THEN Some(ObjectPrototype[key])
    ELSE Null

\* x || dflt
OrElse(x, dflt) == IF IsNull(x) \/ Val(x) = "" THEN dflt ELSE Val(x)

GetToneIcon(tone) == OrElse(GetProperty(Icons, tone), DefaultIcon)
GetToneColor(tone) == OrElse(GetProperty(Colors, tone), DefaultColor)

Tones ==
    {"professional", "friendly", "brief", "detailed",
     "casual", "Professional", "", "constructor", "toString",
     "isPrototypeOf", "__proto__"}

\* one reply card of replies.map: its colour class and its icon
RenderCard(tone) ==
    /\ Len(cards) < MaxCards
    /\ cards' = Append(cards, [tone |-> tone,
                               icon |-> GetToneIcon(tone),
                               color |-> GetToneColor(tone)])
    /\ UNCHANGED <<appVars, clipboard, writes, lastCopy, lastWrite>>

\* What navigator.clipboard.writeText can come to: the text is written; the
\* returned promise rejects because the write is denied; or
\* navigator.clipboard is undefined and the call throws.
Platforms == {"granted", "denied", "unsupported"}
CopyTexts == {"", "Dear...", "Thanks"}
CopiedMsg == "Reply copied to clipboard!"

\* copyToClipboard(text): the write is started and not awaited, and the alert
\* follows at once; when navigator.clipboard is undefined the call throws
\* before the alert.
CopyToClipboard(text, platform) ==
    /\ IF platform = "unsupported"
       THEN /\ lastCopy' = Some([text |-> text, threw |-> TRUE, alerted |-> Null])
            /\ UNCHANGED writes
       ELSE /\ Len(writes) < MaxWrites
            /\ writes' = Append(writes, [text |-> text,
                                         platform |-> platform,
                                         alerted |-> Some(CopiedMsg)])
            /\ lastCopy' = Some([text |-> text, threw |-> FALSE,
                                 alerted |-> Some(CopiedMsg)])
    /\ UNCHANGED <<appVars, cards, clipboard, lastWrite>>

\* The oldest write settles after the handler has returned: the text reaches
\* the clipboard, or the promise rejects and nothing handles the rejection.
WriteSettles ==
    /\ writes # << >>
    /\ clipboard' = IF Head(writes).platform = "granted"
                    THEN Some(Head(writes).text)
                    ELSE clipboard
    /\ lastWrite' = Some(Head(writes))
    /\ writes' = Tail(writes)
    /\ UNCHANGED <<appVars, cards, lastCopy>>

ViewNext ==
    \/ \E tone \in Tones : RenderCard(tone)
    \/ \E text \in CopyTexts, platform \in Platforms : CopyToClipboard(text, platform)
    \/ WriteSettles

ViewSpec == Init /\ [][ViewNext]_vars

(***************************************************************************)
(* Properties.                                                             *)
(***************************************************************************)

\* a content made of white space only (the empty content included)
WhitespaceOnly(s) == \A i \in 1..Len(s) : s[i] \in Whitespace

\* the step is the completion of a request that failed
FailedStep == lastOp' = "failed" /\ pending' # pending

\* C1: a submission whose content is empty or white space only issues no
\* request and leaves the validation message in error, whatever the state
\* it is made in.
C1_BlankSubmitRejected ==
    [][(GenerateReplies /\ WhitespaceOnly(emailContent))
         => (/\ pending' = pending
             /\ issued' = issued
             /\ error' = ValidationMsg)]_vars

C1_Witness ==
    /\ lastOp = "rejected"
    /\ emailContent # << >>
    /\ WhitespaceOnly(emailContent)
    /\ error = ValidationMsg
    /\ replies # << >>

\* C2 as stated: when a request fails, the reply collection is the one that
\* was displayed before the submission.
C2_RepliesPreservedOnFailure ==
    [][FailedStep => replies' = shownBefore]_vars

\* C2 amended: when a request fails, the reply collection is empty, as the
\* submission left it; the replies displayed before the submission are gone.
C2_RepliesEmptyOnFailure ==
    lastOp = "failed" => (replies = << >> /\ repliesFrom = 0 /\ error # "")

C2_Witness ==
    /\ lastOp = "failed"
    /\ issued = 2
    /\ replies = << >>
    /\ error # ""
    /\ editedReply = "Thanks"

\* C3: at most one request is outstanding, loading is true exactly while
\* one is outstanding, and no submission can start while one is outstanding.
C3_SingleOutstandingRequest ==
    /\ Cardinality(pending) <= 1
    /\ loading <=> pending # {}
    /\ pending # {} => ~ENABLED GenerateReplies

C3_Witness ==
    /\ Cardinality(pending) = 1
    /\ loading
    /\ ~WhitespaceOnly(emailContent)
    /\ issued < MaxRequests

\* C4: the installed reply collection is the response to the newest request
\* issued; a response to an older request never replaces it.
C4_NoStaleInstall ==
    /\ repliesFrom # 0 => repliesFrom = issued
    /\ \A req \in pending : req.id = issued

C4_Witness ==
    /\ lastOp = "installed"
    /\ repliesFrom = 2
    /\ issued = 2
    /\ replies # << >>

\* C5: the selected reply, if any, is an element of the current reply
\* collection, and was selected from it.
C5_SelectionInCollection ==
    ~IsNull(selectedReply)
        => /\ \E i \in 1..Len(replies) : replies[i] = Val(selectedReply)
           /\ openedUnder = repliesFrom

C5_Witness ==
    /\ ~IsNull(selectedReply)
    /\ issued = 2
    /\ repliesFrom = 2
    /\ Len(replies) = 2
    /\ Val(selectedReply) = replies[2]

\* C6: when a successful response is installed, the reply collection is
\* exactly the list the response carries and no reply is selected.
C6_InstallIsWholesale ==
    lastOp = "installed"
        => /\ ~IsNull(delivered)
           /\ Val(delivered).ok
           /\ replies = Val(delivered).data.replies
           /\ Len(replies) = Len(Val(delivered).data.replies)
           /\ IsNull(selectedReply)

C6_Witness ==
    /\ lastOp = "installed"
    /\ Len(replies) = 2
    /\ replies[1].id # replies[2].id
    /\ editedReply = "Thanks"

\* C7: installing a collection leaves no editor session open; a session that
\* is open was opened on the installed collection and its working text was
\* set under that collection; and when a select finds the text of a prior
\* collection's session in the editor, the session it opens has the selected
\* reply's content as working text, not that text.
C7_InstallDiscardsSession ==
    /\ lastOp = "installed" => IsNull(selectedReply)
    /\ ~IsNull(selectedReply)
         => /\ openedUnder = repliesFrom
            /\ repliesFrom = issued
            /\ editedUnder = repliesFrom
    /\ ~IsNull(staleText)
         => /\ ~IsNull(selectedReply)
            /\ editedReply = Val(selectedReply).content

C7_Witness ==
    /\ lastOp = "select"
    /\ staleText = Some("Thanks")
    /\ issued = 2
    /\ repliesFrom = 2
    /\ openedUnder = 2
    /\ editedUnder = 2
    /\ editedReply = "Hey..."

\* C8: reset sets the working text to the content the selected reply had
\* when the session was opened, whatever edits were made since.
C8_ResetRestoresOriginal ==
    lastOp = "reset"
        => /\ ~IsNull(selectedReply)
           /\ ~IsNull(openedContent)
           /\ editedReply = Val(openedContent)

C8_Witness ==
    /\ lastOp = "reset"
    /\ discarded = Some("")
    /\ editedReply = "Hey..."

C8_WitnessNoEdits ==
    /\ lastOp = "reset"
    /\ IsNull(discarded)

\* C9: selecting a reply opens a session on that reply with its content as
\* working text, also over a session with unsaved edits, whose text is not
\* carried over.
C9_SelectOpensFreshSession ==
    lastOp = "select"
        => /\ ~IsNull(selectedReply)
           /\ \E i \in 1..Len(replies) : selectedReply = Some(replies[i])
           /\ editedReply = Val(selectedReply).content

C9_Witness ==
    /\ lastOp = "select"
    /\ ~IsNull(discarded)
    /\ Val(discarded) = "Thanks"
    /\ editedReply = Val(selectedReply).content

\* the detail string a failure outcome carries, if any
CarriedDetail(out) ==
    IF IsNull(out.response) THEN Null
    ELSE IF IsNull(Val(out.response).data) THEN Null
    ELSE Val(Val(out.response).data).detail

\* C10 as stated: the error message of a failed submission is the detail
\* string of the response whenever it carries one, the fallback otherwise.
C10_DetailVerbatim ==
    lastOp = "failed"
        => error = IF IsNull(CarriedDetail(Val(delivered))) THEN FallbackMsg
                   ELSE Val(CarriedDetail(Val(delivered)))

\* C10 amended: the error message of a failed submission is the detail
\* string of the response whenever it carries a non-empty one, the fallback
\* otherwise (no response, no body, no detail, or an empty detail).
C10_NonEmptyDetailVerbatim ==
    lastOp = "failed"
        => error = IF IsNull(CarriedDetail(Val(delivered))) THEN FallbackMsg
                   ELSE IF Val(CarriedDetail(Val(delivered))) = "" THEN FallbackMsg
                   ELSE Val(CarriedDetail(Val(delivered)))

C10_Witness ==
    /\ lastOp = "failed"
    /\ error = "rate limited"

C10_WitnessEmptyDetail ==
    /\ lastOp = "failed"
    /\ CarriedDetail(Val(delivered)) = Some("")
    /\ error = FallbackMsg

\* C11: idle, submitting and error exclude each other: loading is never
\* true while a non-empty error message is held.
C11_LoadingExcludesError ==
    ~(loading /\ error # "")

C11_Witness ==
    /\ loading
    /\ error = ""
    /\ issued = 2
    /\ shownBefore = << >>
    /\ editedReply = ""

\* the step is a submission with content that is not white space only
NonBlankSubmit == GenerateReplies /\ ~WhitespaceOnly(emailContent)

\* C12: a submission with non-blank content issues exactly one request and
\* nothing else issues one, a failure in particular: the requests issued
\* are as many as the non-blank submissions.
C12_OneRequestPerSubmission ==
    [][/\ NonBlankSubmit
            => /\ issued' = issued + 1
               /\ pending \subseteq pending'
               /\ Cardinality(pending') = Cardinality(pending) + 1
       /\ ~NonBlankSubmit
            => /\ issued' = issued
               /\ pending' \subseteq pending]_vars

C12_Witness ==
    /\ lastOp = "failed"
    /\ issued = 1
    /\ pending = {}
    /\ ~WhitespaceOnly(emailContent)

\* C13: when the outcome of a request arrives the submitting state is left:
\* loading is false, no error is held after a success, an error is held
\* after a failure, and submission is enabled again.
C13_OutcomeEndsSubmitting ==
    /\ lastOp = "installed" => (~loading /\ error = "" /\ SubmitEnabled)
    /\ lastOp = "failed" => (~loading /\ error # "" /\ SubmitEnabled)

C13_Witness ==
    /\ lastOp = "installed"
    /\ issued = 1
    /\ ~loading
    /\ ~WhitespaceOnly(emailContent)
    /\ ENABLED GenerateReplies

\* C14: the request a submission issues carries the content as entered,
\* untrimmed and not blank, and each sender field as entered when it is not
\* empty and as null when it is: never as the empty string.
C14_PayloadAsEntered ==
    [][issued' # issued
         => \E req \in pending' \ pending :
               /\ req.id = issued'
               /\ req.body.email_content = emailContent
               /\ ~WhitespaceOnly(req.body.email_content)
               /\ req.body.sender_name =
                      IF senderName = "" THEN Null ELSE Some(senderName)
               /\ req.body.sender_email =
                      IF senderEmail = "" THEN Null ELSE Some(senderEmail)
               /\ req.body.sender_name # Some("")
               /\ req.body.sender_email # Some("")]_vars

C14_Witness ==
    \E req \in pending :
        /\ req.body.email_content = <<" ", "a">>
        /\ req.body.sender_name = Null
        /\ req.body.sender_email = Some("john@example.com")

\* the tones of the catalogue
Catalogued == {"professional", "friendly", "brief", "detailed"}

\* C15: every tone outside the catalogue is presented with the default icon
\* and the default style class, and every tone with a catalogued or default
\* presentation.
C15_UnknownToneGetsDefault ==
    \A i \in 1..Len(cards) :
        /\ cards[i].tone \notin Catalogued
             => (cards[i].icon = DefaultIcon /\ cards[i].color = DefaultColor)
        /\ cards[i].icon \in {"necktie", "smile", "zap", "memo", DefaultIcon}

\* C16: a copy whose write did not succeed is not acknowledged as a success,
\* and is reported as a failure when the platform denied the write.
C16_CopyFailureReported ==
    /\ ~IsNull(lastWrite)
         => /\ ~IsNull(Val(lastWrite).alerted) => Val(lastWrite).platform = "granted"
            /\ Val(lastWrite).platform = "denied" => IsNull(Val(lastWrite).alerted)
    /\ ~IsNull(lastCopy)
         => (Val(lastCopy).threw => IsNull(Val(lastCopy).alerted))

\* C17: a submission rejected for blank content changes the error message
\* only: replies, selection, working text, loading, the form fields and the
\* outstanding requests are as before.
C17_RejectionChangesErrorOnly ==
    [][(GenerateReplies /\ WhitespaceOnly(emailContent))
         => UNCHANGED <<replies, selectedReply, editedReply, loading,
                        emailContent, senderName, senderEmail, pending>>]_vars

C17_Witness ==
    /\ lastOp = "rejected"
    /\ error = ValidationMsg
    /\ ~IsNull(selectedReply)
    /\ editedReply = "Thanks"
    /\ senderName # ""

\* C18: once a submission with non-blank content has started, and before its
\* response arrives, the state is submitting, the error message is empty and
\* the reply collection is empty.
C18_SubmitClears ==
    lastOp = "submit"
        => /\ loading
           /\ pending # {}
           /\ error = ""
           /\ replies = << >>

C18_Witness ==
    /\ lastOp = "submit"
    /\ issued = 2
    /\ shownBefore # << >>
    /\ loading
    /\ replies = << >>

\* the step is an edit or a reset of the working text
EditOrReset == (\E v \in EditTexts : EditReply(v)) \/ ResetReply

\* C19: edit and reset change the working text only: the selection, the
\* original content of the selected reply and the replies of the collection
\* are as before.
C19_EditTouchesWorkingTextOnly ==
    [][EditOrReset
         => /\ UNCHANGED <<selectedReply, replies, openedContent>>
            /\ Val(selectedReply').content = Val(openedContent)
            /\ UNCHANGED <<emailContent, senderName, senderEmail, loading,
                           error, pending>>]_vars

C19_Witness ==
    /\ lastOp = "edit"
    /\ editedReply = ""
    /\ ~IsNull(selectedReply)
    /\ Val(selectedReply).content = "Hey..."
    /\ Len(replies) = 2
    /\ Val(selectedReply) = replies[2]

\* C20: while a request is outstanding the reply collection is empty and no
\* reply is selected, so that select, edit, reset and close are disabled.
C20_NothingShownWhileLoading ==
    loading
        => /\ replies = << >>
           /\ IsNull(selectedReply)
           /\ ~ENABLED (\E i \in 1..MaxReplies : SelectReply(i))
           /\ ~ENABLED (\E v \in EditTexts : EditReply(v))
           /\ ~ENABLED ResetReply
           /\ ~ENABLED CloseEditor

C20_Witness ==
    /\ loading
    /\ shownBefore # << >>
    /\ editedReply = "Thanks"
    /\ pending # {}
====
